---- MODULE Spec2Model ----
(***************************************************************************)
(* A model of network/manager_accesspoint.go of dde-daemon: the per-device *)
(* access point registry (m.accessPoints), the signals it emits, the       *)
(* security classifier doParseApSecType and access point activation.       *)
(***************************************************************************)
EXTENDS Integers, Sequences, FiniteSets, TLC

(***************************************************************************)
(* Bounds of the model.                                                    *)
(***************************************************************************)
\* longest apPaths slice handed to initAccessPoints
MaxInitLen == 1
\* most access point objects that were dropped from the registry by
\* initAccessPoints while their signal handler stays connected
\* invocations of checkAPStrength that can be running at the same time
MaxPasses == 2

\* length of the lists findAPByBand is applied to
MaxFindLen == 3

MaxDetached == 1

(***************************************************************************)
(* Program constants.                                                      *)
(***************************************************************************)
apSecNone == 0
apSecWep == 1
apSecPsk == 2
apSecEap == 3

\* package nm: values of the NetworkManager D-Bus API
NM_802_11_AP_FLAGS_PRIVACY == 1
NM_802_11_AP_SEC_NONE == 0
NM_802_11_AP_SEC_KEY_MGMT_802_1X == 512
NM_SETTING_WIRELESS_SETTING_NAME == "802-11-wireless"

(***************************************************************************)
(* The small universes the inputs are drawn from.  A specification picks   *)
(* one in its initial state (variable world) and keeps it.                 *)
(***************************************************************************)
\* decoded SSIDs an access point can report; "" is a hidden access point
Ssids == {"", "home"}
\* 0 is the driver artifact, 9 and 10 sit on both sides of the threshold
Strengths == {0, 9, 10}
\* the active connections NetworkManager can report: a wireless one on
\* /dev/1 for "home", a wireless one on /dev/1 for another network, and a
\* wired one that names both devices
ActiveConnUniverse ==
    { [typ |-> NM_SETTING_WIRELESS_SETTING_NAME, Devices |-> {"/dev/1"}, ssid |-> "home"],
      [typ |-> NM_SETTING_WIRELESS_SETTING_NAME, Devices |-> {"/dev/1"}, ssid |-> "cafe"],
      [typ |-> "802-3-ethernet", Devices |-> {"/dev/1", "/dev/2"}, ssid |-> "home"] }

\* two devices, two access points, every active connection
RegistryWorld ==
    [devPaths |-> {"/dev/1", "/dev/2"}, apPaths |-> {"/ap/1", "/ap/2"},
     strengths |-> Strengths, conns |-> ActiveConnUniverse,
     fetchFails |-> {{}}]

\* two devices, one access point, no active connection
InitWorld ==
    [devPaths |-> {"/dev/1", "/dev/2"}, apPaths |-> {"/ap/1"},
     strengths |-> {9, 10}, conns |-> {},
     fetchFails |-> {{}}]

\* two devices, three access points, no active connection
OrderWorld ==
    [devPaths |-> {"/dev/1", "/dev/2"}, apPaths |-> {"/ap/1", "/ap/2", "/ap/3"},
     strengths |-> {9, 10}, conns |-> {},
     fetchFails |-> {{}}]

VARIABLES
    world,         \* the devices, access points and connections of this run
    accessPoints,  \* m.accessPoints: devPath -> sequence of accessPoint
    detached,      \* accessPoint objects dropped from the map, handler still connected
    activeConns,   \* what nmGetActiveConnections reports
    emitted,       \* signals emitted through m.service.Emit by the last operation, in order
    released,      \* Paths handed to nmDestroyAccessPoint by the last operation, in order
    lastOp,        \* the last operation and its arguments
    listening,     \* per Path: a listener has seen AccessPointAdded and no AccessPointRemoved since
    panicked,      \* a handler ran into a Go runtime panic (index out of range)
    secIn,         \* classifier: <<flags, wpaFlags, rsnFlags>>
    secOut,        \* classifier: result of doParseApSecType, -1 before the call
    findIn,        \* findAPByBand: its arguments ssid, accessPoints, band
    findOut,       \* findAPByBand: index of the entry returned, 0 for nil, -1 before the call
    profiles,      \* stored connection profiles: uuid -> key management category
    nmCalls,       \* calls activateAccessPoint made to the network-management service
    actRet,        \* what activateAccessPoint returned
    debugChangeAPBand,     \* m.debugChangeAPBand: "" when no band is requested
    checkAPStrengthTimer,  \* m.checkAPStrengthTimer: "nil", "armed" or "fired"
    passes,        \* the invocations of checkAPStrength: where each is, its local band
    nmDev,         \* per wireless device: what its NetworkManager handle reports
    dbgCall,       \* the invocation of DebugChangeAPChannel: where it is, what it returned
    lastEval,      \* the last device a pass evaluated and what it did for it
    accessPointsLock   \* m.accessPointsLock: "" when free, else the operation holding it

vars == <<world, accessPoints, detached, activeConns, emitted, released, lastOp,
          listening, panicked, secIn, secOut, findIn, findOut, profiles, nmCalls, actRet,
          debugChangeAPBand, checkAPStrengthTimer, passes, nmDev, dbgCall, lastEval,
          accessPointsLock>>

secVars == <<secIn, secOut, findIn, findOut>>
activateVars == <<profiles, nmCalls, actRet>>
steerVars == <<debugChangeAPBand, checkAPStrengthTimer, passes, nmDev, dbgCall, lastEval>>

(***************************************************************************)
(* Sequence helpers.                                                       *)
(***************************************************************************)
RECURSIVE Flatten(_)
Flatten(ss) == IF ss = <<>> THEN <<>> ELSE Head(ss) \o Flatten(Tail(ss))

SeqsUpTo(S, n) == UNION { [1..k -> S] : k \in 0..n }

Range(s) == { s[i] : i \in 1..Len(s) }

\* the orders in which a Go `range` over the map can visit the devices
DeviceOrders ==
    { o \in [1..Cardinality(world.devPaths) -> world.devPaths] : Range(o) = world.devPaths }

(***************************************************************************)
(* Security classifier.                                                    *)
(***************************************************************************)
\* x & mask != 0 for a one-bit mask
BitSet(x, mask) == (x \div mask) % 2 = 1

doParseApSecType_EapFirst(flags, wpaFlags, rsnFlags) ==
    LET r0 == apSecNone
        r1 == IF BitSet(wpaFlags, NM_802_11_AP_SEC_KEY_MGMT_802_1X)
                 \/ BitSet(rsnFlags, NM_802_11_AP_SEC_KEY_MGMT_802_1X)
              THEN apSecEap ELSE r0
        r2 == IF BitSet(flags, NM_802_11_AP_FLAGS_PRIVACY)
                 /\ wpaFlags = NM_802_11_AP_SEC_NONE
                 /\ rsnFlags = NM_802_11_AP_SEC_NONE
              THEN apSecWep ELSE r1
        r3 == IF wpaFlags # NM_802_11_AP_SEC_NONE THEN apSecPsk ELSE r2
        r4 == IF rsnFlags # NM_802_11_AP_SEC_NONE THEN apSecPsk ELSE r3
    IN  r4

doParseApSecType(flags, wpaFlags, rsnFlags) ==
    LET r0 == apSecNone
        r1 == IF BitSet(flags, NM_802_11_AP_FLAGS_PRIVACY)
                 /\ wpaFlags = NM_802_11_AP_SEC_NONE
                 /\ rsnFlags = NM_802_11_AP_SEC_NONE
              THEN apSecWep ELSE r0
        r2 == IF wpaFlags # NM_802_11_AP_SEC_NONE THEN apSecPsk ELSE r1
        r3 == IF rsnFlags # NM_802_11_AP_SEC_NONE THEN apSecPsk ELSE r2
        r4 == IF BitSet(wpaFlags, NM_802_11_AP_SEC_KEY_MGMT_802_1X)
                 \/ BitSet(rsnFlags, NM_802_11_AP_SEC_KEY_MGMT_802_1X)
              THEN apSecEap ELSE r3
    IN  r4

(***************************************************************************)
(* What the NetworkManager handle of an access point reports.  In the      *)
(* registry specification the capability flags and the frequency of an     *)
(* access point are fixed per Path; SSID and strength vary from read to    *)
(* read.                                                                   *)
(***************************************************************************)
NmFlagsOf(apPath) ==
    CASE apPath = "/ap/1" -> <<0, 0, 0>>
      [] apPath = "/ap/2" -> <<1, 0, 256>>
      [] OTHER -> <<1, 0, 512>>

NmFrequencyOf(apPath) == IF apPath = "/ap/3" THEN 5180 ELSE 2437

\* the property getters of a handle, as updateProps and getApSecType call them
Getters == {"Ssid", "Flags", "WpaFlags", "RsnFlags", "Strength", "Frequency"}

\* one read of the properties of a handle: the values NetworkManager holds
\* and the getters whose call fails in this read
ApReads == [ssid : Ssids \ {""}, strength : world.strengths, failed : world.fetchFails]

\* the outcomes of the external calls of newAccessPoint:
\*   newOk      nmNewAccessPoint returned a handle
\*   connectOk  ConnectPropertiesChanged succeeded
\* (fields that are not reached are pinned to one value)
NewApInputs ==
    { i \in [newOk : BOOLEAN, connectOk : BOOLEAN, ssid : Ssids,
              strength : world.strengths \cup {0}] :
        /\ ~i.newOk => (i.ssid = "" /\ i.strength = 0 /\ i.connectOk)
        /\ i.ssid = "" => (i.strength = 0 /\ i.connectOk)
        /\ (i.newOk /\ i.ssid # "") => i.strength \in world.strengths }

(***************************************************************************)
(* accessPoint.updateProps and Manager.isAccessPointActivated              *)
(***************************************************************************)
isAccessPointActivated(devPath, ssid) ==
    \E aconn \in activeConns :
        /\ aconn.typ = NM_SETTING_WIRELESS_SETTING_NAME
        /\ devPath \in aconn.Devices
        /\ ssid = aconn.ssid

shouldIgnore_NoZeroCarveOut(strength, devPath, ssid) ==
    strength < 10 /\ ~isAccessPointActivated(devPath, ssid)

\* the condition of lines 179-180
shouldIgnore(strength, devPath, ssid) ==
    strength < 10 /\ strength # 0 /\ ~isAccessPointActivated(devPath, ssid)

\* Every getter's error is discarded (`x, _ := ...Get(0)`): a failed call
\* leaves the zero value in x, and the field is assigned all the same.
\* getApSecType runs twice; both runs see the same failures.
updateProps(a, r) ==
    LET Got(getter, v, zero) == IF getter \in r.failed THEN zero ELSE v
        ssid == Got("Ssid", r.ssid, "")
        strength == Got("Strength", r.strength, 0)
        secType == doParseApSecType(Got("Flags", NmFlagsOf(a.Path)[1], 0),
                                    Got("WpaFlags", NmFlagsOf(a.Path)[2], 0),
                                    Got("RsnFlags", NmFlagsOf(a.Path)[3], 0))
    IN  [a EXCEPT !.Ssid = ssid,
                  !.Secured = (secType # apSecNone),
                  !.SecuredInEap = (secType = apSecEap),
                  !.Strength = strength,
                  !.Frequency = Got("Frequency", NmFrequencyOf(a.Path), 0),
                  !.shouldBeIgnored = shouldIgnore(strength, a.devPath, ssid)]

(***************************************************************************)
(* Signals.  The JSON snapshot carried by a signal is represented by the   *)
(* Path of the access point it was marshalled from.                        *)
(***************************************************************************)
Signal(name, ap) == [sig |-> name, devPath |-> ap.devPath, Path |-> ap.Path]

RECURSIVE Hear(_, _)
\* what a listener that tracks the visible access points holds after `evs`
Hear(l, evs) ==
    IF evs = <<>> THEN l
    ELSE LET e == Head(evs)
             l1 == CASE e.sig = "AccessPointAdded" -> [l EXCEPT ![e.Path] = TRUE]
                     [] e.sig = "AccessPointRemoved" -> [l EXCEPT ![e.Path] = FALSE]
                     [] OTHER -> l
         IN  Hear(l1, Tail(evs))

(***************************************************************************)
(* Manager.newAccessPoint: the returned (ap, err) and the signals emitted   *)
(***************************************************************************)
newAccessPoint(devPath, apPath, in) ==
    LET ap0 == [Path |-> apPath, devPath |-> devPath, shouldBeIgnored |-> FALSE,
                Ssid |-> "", Secured |-> FALSE, SecuredInEap |-> FALSE,
                Strength |-> 0, Frequency |-> 0]
        ap == updateProps(ap0, [ssid |-> in.ssid, strength |-> in.strength,
                               failed |-> {}])
    IN  IF ~in.newOk
        THEN \* nmNewAccessPoint failed: no object
             [err |-> TRUE, ap |-> ap0, events |-> <<>>]
        ELSE IF ap.Ssid = ""
        THEN \* "ignore hidden access point"
             [err |-> TRUE, ap |-> ap, events |-> <<>>]
        ELSE \* err is what ConnectPropertiesChanged returned; the signal is
             \* emitted whether or not the handler could be connected
             [err |-> ~in.connectOk, ap |-> ap,
              events |-> IF ap.shouldBeIgnored THEN <<>>
                         ELSE <<Signal("AccessPointAdded", ap)>>]

(***************************************************************************)
(* Manager.getAccessPointIndex, Manager.isAccessPointExists                *)
(***************************************************************************)
\* index of the first entry of aps with this Path, -1 when there is none
FirstIndex(aps, apPath) ==
    IF \E i \in 1..Len(aps) : aps[i].Path = apPath
    THEN CHOOSE i \in 1..Len(aps) :
            /\ aps[i].Path = apPath
            /\ \A j \in 1..(i - 1) : aps[j].Path # apPath
    ELSE -1

\* The results the scan can return: Go visits the keys of a map in an
\* unspecified order, so any device holding the Path can be the one found.
\* Indices are 1-based here, 0-based in the source.
getAccessPointIndex(apPath) ==
    LET hits == { <<d, FirstIndex(accessPoints[d], apPath)>> :
                    d \in { x \in world.devPaths : FirstIndex(accessPoints[x], apPath) > 0 } }
    IN  IF hits = {} THEN { <<"", -1>> } ELSE hits

isAccessPointExists_OffByOne(apPath) ==
    \E r \in getAccessPointIndex(apPath) : r[2] >= 2

isAccessPointExists_Always(apPath) ==
    \E r \in getAccessPointIndex(apPath) : r[2] >= -1

\* i >= 0 in the source, whose indices start at 0
isAccessPointExists(apPath) ==
    \E r \in getAccessPointIndex(apPath) : r[2] >= 1

(***************************************************************************)
(* Manager.destroyAccessPoint, Manager.doRemoveAccessPoint                 *)
(***************************************************************************)
\* the signal destroyAccessPoint emits; it then hands ap.nmAp to
\* nmDestroyAccessPoint
destroyAccessPoint(ap) == Signal("AccessPointRemoved", ap)

doRemoveAccessPoint_SwapLast(aps, i) ==
    [k \in 1..(Len(aps) - 1) |-> IF k = i THEN aps[Len(aps)] ELSE aps[k]]

\* aps without its i-th entry, the others in their order
doRemoveAccessPoint(aps, i) ==
    [k \in 1..(Len(aps) - 1) |-> IF k < i THEN aps[k] ELSE aps[k + 1]]

(***************************************************************************)
(* Manager.GetAccessPoints: the list that is marshalled                    *)
(***************************************************************************)
RECURSIVE filterLoop(_, _)
filterLoop(aps, filtered) ==
    IF aps = <<>> THEN filtered
    ELSE filterLoop(Tail(aps),
                    IF ~Head(aps).shouldBeIgnored THEN Append(filtered, Head(aps))
                    ELSE filtered)

GetAccessPoints(path) == filterLoop(accessPoints[path], <<>>)

(***************************************************************************)
(* The operations of the registry.                                         *)
(***************************************************************************)
Op(name, devPath, apPath, index) ==
    [op |-> name, devPath |-> devPath, apPath |-> apPath, index |-> index]

\* what every operation does with the signals it emitted
Emit(evs) ==
    /\ emitted' = evs
    /\ listening' = Hear(listening, evs)

addAccessPoint(devPath, apPath, in) ==
    /\ ~panicked
    /\ lastOp' = Op("addAccessPoint", devPath, apPath, 0)
    /\ released' = <<>>
    /\ IF isAccessPointExists(apPath)
       THEN /\ Emit(<<>>)
            /\ UNCHANGED accessPoints
       ELSE LET n == newAccessPoint(devPath, apPath, in)
            IN  /\ Emit(n.events)
                /\ IF n.err
                   THEN UNCHANGED accessPoints
                   ELSE accessPoints' =
                          [accessPoints EXCEPT ![devPath] = Append(@, n.ap)]
    /\ accessPointsLock' = ""
    /\ UNCHANGED <<secVars, activateVars, steerVars, world, detached, activeConns, panicked>>

removeAccessPoint(devPath, apPath) ==
    /\ ~panicked
    /\ lastOp' = Op("removeAccessPoint", devPath, apPath, 0)
    /\ IF ~isAccessPointExists(apPath)
       THEN /\ Emit(<<>>)
            /\ released' = <<>>
            /\ UNCHANGED <<accessPoints, panicked>>
       ELSE \E r \in getAccessPointIndex(apPath) :
              LET i == r[2]
                  aps == accessPoints[devPath]
              IN  IF i < 1 \/ i > Len(aps)
                  THEN \* aps[i]: index out of range
                       /\ panicked' = TRUE
                       /\ Emit(<<>>)
                       /\ released' = <<>>
                       /\ UNCHANGED accessPoints
                  ELSE /\ Emit(<<destroyAccessPoint(aps[i])>>)
                       /\ released' = <<aps[i].Path>>
                       /\ accessPoints' =
                            [accessPoints EXCEPT ![devPath] = doRemoveAccessPoint(aps, i)]
                       /\ UNCHANGED panicked
    /\ accessPointsLock' = ""
    /\ UNCHANGED <<secVars, activateVars, steerVars, world, detached, activeConns>>

clearAccessPoints ==
    /\ ~panicked
    /\ lastOp' = Op("clearAccessPoints", "", "", 0)
    /\ \E o \in DeviceOrders :
         LET visited == Flatten([k \in 1..Len(o) |-> accessPoints[o[k]]])
         IN  /\ Emit([k \in 1..Len(visited) |-> destroyAccessPoint(visited[k])])
             /\ released' = [k \in 1..Len(visited) |-> visited[k].Path]
    /\ accessPoints' = [d \in world.devPaths |-> <<>>]
    /\ accessPointsLock' = ""
    /\ UNCHANGED <<secVars, activateVars, steerVars, world, detached, activeConns, panicked>>

RECURSIVE initLoop(_, _, _, _)
\* the loop of initAccessPoints: [accessPoints, events]
initLoop(devPath, apPaths, ins, acc) ==
    IF apPaths = <<>> THEN acc
    ELSE LET n == newAccessPoint(devPath, Head(apPaths), Head(ins))
         IN  initLoop(devPath, Tail(apPaths), Tail(ins),
                      [accessPoints |-> IF n.err THEN acc.accessPoints
                                        ELSE Append(acc.accessPoints, n.ap),
                       events |-> acc.events \o n.events])

initAccessPoints(devPath, apPaths, ins) ==
    /\ ~panicked
    /\ Len(ins) = Len(apPaths)
    /\ lastOp' = Op("initAccessPoints", devPath, "", 0)
    /\ LET built == initLoop(devPath, apPaths, ins,
                             [accessPoints |-> <<>>, events |-> <<>>])
       IN  /\ Emit(built.events)
           /\ accessPoints' = [accessPoints EXCEPT ![devPath] = built.accessPoints]
    \* the objects that were in the slot are dropped without being destroyed
    /\ detached' = detached \cup Range(accessPoints[devPath])
    /\ Cardinality(detached') <= MaxDetached
    /\ released' = <<>>
    /\ accessPointsLock' = ""
    /\ UNCHANGED <<secVars, activateVars, steerVars, world, activeConns, panicked>>

changedSignals_Swapped(ignoredBefore, ap) ==
    LET ignoredNow == ap.shouldBeIgnored
    IN  IF ignoredNow = ignoredBefore
        THEN IF ignoredNow THEN <<>>
             ELSE <<Signal("AccessPointPropertiesChanged", ap)>>
        ELSE IF ignoredNow THEN <<Signal("AccessPointAdded", ap)>>
             ELSE <<Signal("AccessPointRemoved", ap)>>

\* the signals the ConnectPropertiesChanged callback emits
changedSignals(ignoredBefore, ap) ==
    LET ignoredNow == ap.shouldBeIgnored
    IN  IF ignoredNow = ignoredBefore
        THEN IF ignoredNow THEN <<>>
             ELSE <<Signal("AccessPointPropertiesChanged", ap)>>
        ELSE IF ignoredNow THEN <<Signal("AccessPointRemoved", ap)>>
             ELSE <<Signal("AccessPointAdded", ap)>>

\* the callback of the object at accessPoints[devPath][i]
propertiesChanged(devPath, i, r) ==
    /\ ~panicked
    /\ i \in 1..Len(accessPoints[devPath])
    /\ LET ap == accessPoints[devPath][i]
           now == updateProps(ap, r)
       IN  /\ lastOp' = Op("propertiesChanged", ap.devPath, ap.Path, i)
           /\ IF ~isAccessPointExists(ap.Path)
              THEN /\ Emit(<<>>)
                   /\ UNCHANGED accessPoints
              ELSE /\ Emit(changedSignals(ap.shouldBeIgnored, now))
                   /\ accessPoints' = [accessPoints EXCEPT ![devPath][i] = now]
    /\ released' = <<>>
    /\ accessPointsLock' = ""
    /\ UNCHANGED <<secVars, activateVars, steerVars, world, detached, activeConns, panicked>>

\* the callback of an object that is no longer in the map
propertiesChangedDetached(ap, r) ==
    /\ ~panicked
    /\ ap \in detached
    /\ lastOp' = Op("propertiesChanged", ap.devPath, ap.Path, 0)
    /\ LET now == updateProps(ap, r)
       IN  IF ~isAccessPointExists(ap.Path)
           THEN /\ Emit(<<>>)
                /\ UNCHANGED detached
           ELSE /\ Emit(changedSignals(ap.shouldBeIgnored, now))
                /\ detached' = (detached \ {ap}) \cup {now}
    /\ released' = <<>>
    /\ accessPointsLock' = ""
    /\ UNCHANGED <<secVars, activateVars, steerVars, world, accessPoints, activeConns, panicked>>

\* NetworkManager: the set of active connections changes
activeConnectionsChanged(conns) ==
    /\ ~panicked
    /\ conns # activeConns
    /\ activeConns' = conns
    /\ lastOp' = Op("activeConnectionsChanged", "", "", 0)
    /\ Emit(<<>>)
    /\ released' = <<>>
    /\ UNCHANGED <<secVars, activateVars, steerVars, accessPointsLock, world, accessPoints, detached, panicked>>

(***************************************************************************)
(* The registry specification.                                             *)
(***************************************************************************)
\* the state after construction, in world w
InitIn(w) ==
    /\ world = w
    /\ accessPoints = [d \in w.devPaths |-> <<>>]
    /\ detached = {}
    /\ activeConns = {}
    /\ emitted = <<>>
    /\ released = <<>>
    /\ lastOp = Op("", "", "", 0)
    /\ listening = [p \in w.apPaths |-> FALSE]
    /\ panicked = FALSE
    /\ accessPointsLock = ""
    /\ secIn = <<0, 0, 0>>
    /\ secOut = -1
    /\ findIn = <<>>
    /\ findOut = -1
    /\ profiles = <<>>
    /\ nmCalls = <<>>
    /\ actRet = <<>>
    /\ debugChangeAPBand = ""
    /\ checkAPStrengthTimer = "nil"
    /\ passes = <<>>
    /\ nmDev = <<>>
    /\ dbgCall = <<>>
    /\ lastEval = <<>>

Init == InitIn(RegistryWorld)

\* the operations on the map that handle one entry per call
Next ==
    \/ \E d \in world.devPaths, p \in world.apPaths, in \in NewApInputs : addAccessPoint(d, p, in)
    \/ \E d \in world.devPaths, p \in world.apPaths : removeAccessPoint(d, p)
    \/ clearAccessPoints
    \/ \E d \in world.devPaths, i \in 1..Cardinality(world.apPaths), r \in ApReads :
         propertiesChanged(d, i, r)
    \/ \E conns \in SUBSET world.conns : activeConnectionsChanged(conns)

Spec == Init /\ [][Next]_vars

\* all operations on the map, initAccessPoints included
InitI == InitIn(InitWorld)

NextI ==
    \/ \E d \in world.devPaths, p \in world.apPaths, in \in NewApInputs : addAccessPoint(d, p, in)
    \/ \E d \in world.devPaths, p \in world.apPaths : removeAccessPoint(d, p)
    \/ clearAccessPoints
    \/ \E d \in world.devPaths, i \in 1..Cardinality(world.apPaths) + MaxInitLen, r \in ApReads :
         propertiesChanged(d, i, r)
    \/ \E d \in world.devPaths, ps \in SeqsUpTo(world.apPaths, MaxInitLen) :
         \E ins \in [1..Len(ps) -> NewApInputs] : initAccessPoints(d, ps, ins)
    \/ \E ap \in detached, r \in ApReads : propertiesChangedDetached(ap, r)

SpecInit == InitI /\ [][NextI]_vars

\* three access points
InitO == InitIn(OrderWorld)

NextO ==
    \/ \E d \in world.devPaths, p \in world.apPaths, in \in NewApInputs : addAccessPoint(d, p, in)
    \/ \E d \in world.devPaths, p \in world.apPaths : removeAccessPoint(d, p)
    \/ clearAccessPoints
    \/ \E d \in world.devPaths, i \in 1..Cardinality(world.apPaths), r \in ApReads :
         propertiesChanged(d, i, r)

SpecOrder == InitO /\ [][NextO]_vars

\* one device, two access points, and reads in which getters fail: none,
\* the SSID, the three capability bitfields, the strength, the frequency
RefreshWorld ==
    [devPaths |-> {"/dev/1"}, apPaths |-> {"/ap/2", "/ap/3"},
     strengths |-> {9, 10}, conns |-> {},
     fetchFails |-> {{}, {"Ssid"}, {"Flags", "WpaFlags", "RsnFlags"},
                     {"Strength"}, {"Frequency"}}]

InitRf == InitIn(RefreshWorld)

SpecRefresh == InitRf /\ [][NextO]_vars

(***************************************************************************)
(* The classifier on its own: the initial state draws the three bitfields, *)
(* the one step applies doParseApSecType to them.                          *)
(***************************************************************************)
\* flags: nothing, privacy, WPS, privacy and WPS
ApFlagValues == {0, 1, 2, 3}
\* wpaFlags, rsnFlags: nothing, CCMP pair cipher, PSK key management, 802.1X
\* key management, 802.1X with ciphers, SAE key management
SecFlagValues == {0, 8, 256, 512, 648, 1024}

InitS ==
    /\ world = OrderWorld
    /\ accessPoints = [d \in OrderWorld.devPaths |-> <<>>]
    /\ detached = {}
    /\ activeConns = {}
    /\ emitted = <<>>
    /\ released = <<>>
    /\ lastOp = Op("", "", "", 0)
    /\ listening = [p \in OrderWorld.apPaths |-> FALSE]
    /\ panicked = FALSE
    /\ accessPointsLock = ""
    /\ secIn \in ApFlagValues \X SecFlagValues \X SecFlagValues
    /\ secOut = -1
    /\ findIn = <<>>
    /\ findOut = -1
    /\ profiles = <<>>
    /\ nmCalls = <<>>
    /\ actRet = <<>>
    /\ debugChangeAPBand = ""
    /\ checkAPStrengthTimer = "nil"
    /\ passes = <<>>
    /\ nmDev = <<>>
    /\ dbgCall = <<>>
    /\ lastEval = <<>>

parseApSecType ==
    /\ secOut = -1
    /\ findIn = <<>>
    /\ findOut = -1
    /\ secOut' = doParseApSecType(secIn[1], secIn[2], secIn[3])
    /\ UNCHANGED <<secIn, findIn, findOut, activateVars, steerVars, accessPointsLock, world, accessPoints, detached, activeConns,
                   emitted, released, lastOp, listening, panicked>>

NextS == parseApSecType

SpecSec == InitS /\ [][NextS]_vars

(***************************************************************************)
(* Activation: fixApSecTypeChange, Manager.activateAccessPoint and         *)
(* Manager.ActivateAccessPoint.                                            *)
(*                                                                         *)
(* A stored profile is represented by the value of its key management      *)
(* setting; "absent" is a uuid NetworkManager does not know.  One          *)
(* invocation takes failAt, the external call that fails in it ("" when    *)
(* none does): the code returns at the first failure, so later outcomes    *)
(* are never looked at.                                                    *)
(***************************************************************************)
Uuids == {"u1", "u2"}
\* what utils.GenUuid can return
GenUuids == {"g1"}
KeyMgmts == {"none", "wep", "wpa-psk", "wpa-eap", "unknown"}
\* the flags of the access points activation is asked for: open, WEP, WPA
\* PSK, WPA 802.1X
ActivateFlags == { <<0, 0, 0>>, <<1, 0, 0>>, <<1, 0, 256>>, <<1, 512, 648>> }
ExternalCalls ==
    { "nmNewAccessPoint", "nmGetConnectionByUuid", "nmNewSettingsConnection",
      "GetSettings", "logicSetSettingVkWirelessSecurityKeyMgmt", "Update",
      "activateConnection", "Ssid", "nmAddAndActivateConnection" }

Call(name, arg) == [call |-> name, arg |-> arg]

\* apSecType.String
apSecTypeString(v) ==
    CASE v = apSecNone -> "none"
      [] v = apSecWep -> "wep"
      [] v = apSecPsk -> "wpa-psk"
      [] v = apSecEap -> "wpa-eap"
      [] OTHER -> "<invalid apSecType>"

\* getApSecTypeFromConnData: the category a stored profile was saved with
getApSecTypeFromConnData(keyMgmt) ==
    CASE keyMgmt = "none" -> [err |-> FALSE, secType |-> apSecNone]
      [] keyMgmt = "wep" -> [err |-> FALSE, secType |-> apSecWep]
      [] keyMgmt = "wpa-psk" -> [err |-> FALSE, secType |-> apSecPsk]
      [] keyMgmt = "wpa-eap" -> [err |-> FALSE, secType |-> apSecEap]
      [] OTHER -> [err |-> TRUE, secType |-> apSecNone]

FixResult(needUserEdit, err, calls, stored) ==
    [needUserEdit |-> needUserEdit, err |-> err, calls |-> calls, profiles |-> stored]

fixApSecTypeChange_UpdateErrorDropped(uuid, secType, failAt) ==
    LET c1 == <<Call("nmGetConnectionByUuid", uuid)>>
        c2 == Append(c1, Call("nmNewSettingsConnection", uuid))
        c3 == Append(c2, Call("GetSettings", uuid))
        old == getApSecTypeFromConnData(profiles[uuid])
        c4 == Append(c3, Call("Update", <<uuid, apSecTypeString(secType)>>))
    IN  IF profiles[uuid] = "absent" \/ failAt = "nmGetConnectionByUuid"
        THEN FixResult(FALSE, "nmGetConnectionByUuid", c1, profiles)
        ELSE IF failAt = "nmNewSettingsConnection"
        THEN FixResult(FALSE, "nmNewSettingsConnection", c2, profiles)
        ELSE IF failAt = "GetSettings"
        THEN FixResult(FALSE, "GetSettings", c3, profiles)
        ELSE IF old.err
        THEN FixResult(FALSE, "", c3, profiles)
        ELSE IF old.secType = secType
        THEN FixResult(FALSE, "", c3, profiles)
        ELSE IF secType = apSecEap
        THEN FixResult(TRUE, "", c3, profiles)
        ELSE IF failAt = "logicSetSettingVkWirelessSecurityKeyMgmt"
        THEN FixResult(FALSE, "logicSetSettingVkWirelessSecurityKeyMgmt", c3, profiles)
        ELSE IF failAt = "Update"
        THEN FixResult(FALSE, "", c4, profiles)
        ELSE FixResult(FALSE, "", c4,
                       [profiles EXCEPT ![uuid] = apSecTypeString(secType)])

fixApSecTypeChange_EapRewritten(uuid, secType, failAt) ==
    LET c1 == <<Call("nmGetConnectionByUuid", uuid)>>
        c2 == Append(c1, Call("nmNewSettingsConnection", uuid))
        c3 == Append(c2, Call("GetSettings", uuid))
        old == getApSecTypeFromConnData(profiles[uuid])
        c4 == Append(c3, Call("Update", <<uuid, apSecTypeString(secType)>>))
    IN  IF profiles[uuid] = "absent" \/ failAt = "nmGetConnectionByUuid"
        THEN FixResult(FALSE, "nmGetConnectionByUuid", c1, profiles)
        ELSE IF failAt = "nmNewSettingsConnection"
        THEN FixResult(FALSE, "nmNewSettingsConnection", c2, profiles)
        ELSE IF failAt = "GetSettings"
        THEN FixResult(FALSE, "GetSettings", c3, profiles)
        ELSE IF old.err
        THEN FixResult(FALSE, "", c3, profiles)
        ELSE IF old.secType = secType
        THEN FixResult(FALSE, "", c3, profiles)
        ELSE IF failAt = "logicSetSettingVkWirelessSecurityKeyMgmt"
        THEN FixResult(FALSE, "logicSetSettingVkWirelessSecurityKeyMgmt", c3, profiles)
        ELSE IF failAt = "Update"
        THEN FixResult(FALSE, "Update", c4, profiles)
        ELSE FixResult(FALSE, "", c4,
                       [profiles EXCEPT ![uuid] = apSecTypeString(secType)])

\* (needUserEdit, err), the external calls made, and the stored profiles
\* afterwards; err is "" for nil and names the failed call otherwise
fixApSecTypeChange(uuid, secType, failAt) ==
    LET c1 == <<Call("nmGetConnectionByUuid", uuid)>>
        c2 == Append(c1, Call("nmNewSettingsConnection", uuid))
        c3 == Append(c2, Call("GetSettings", uuid))
        old == getApSecTypeFromConnData(profiles[uuid])
        c4 == Append(c3, Call("Update", <<uuid, apSecTypeString(secType)>>))
    IN  IF profiles[uuid] = "absent" \/ failAt = "nmGetConnectionByUuid"
        THEN FixResult(FALSE, "nmGetConnectionByUuid", c1, profiles)
        ELSE IF failAt = "nmNewSettingsConnection"
        THEN FixResult(FALSE, "nmNewSettingsConnection", c2, profiles)
        ELSE IF failAt = "GetSettings"
        THEN FixResult(FALSE, "GetSettings", c3, profiles)
        ELSE IF old.err
        THEN \* "failed to get apSecType from connData": return false, nil
             FixResult(FALSE, "", c3, profiles)
        ELSE IF old.secType = secType
        THEN FixResult(FALSE, "", c3, profiles)
        ELSE IF secType = apSecEap
        THEN FixResult(TRUE, "", c3, profiles)
        ELSE IF failAt = "logicSetSettingVkWirelessSecurityKeyMgmt"
        THEN FixResult(FALSE, "logicSetSettingVkWirelessSecurityKeyMgmt", c3, profiles)
        ELSE IF failAt = "Update"
        THEN \* the IPv6 addresses and routes are written back as read
             FixResult(FALSE, "Update", c4, profiles)
        ELSE FixResult(FALSE, "", c4,
                       [profiles EXCEPT ![uuid] = apSecTypeString(secType)])

ActResult(cpath, err, calls, stored) ==
    [cpath |-> cpath, err |-> err, calls |-> calls, profiles |-> stored]

activateAccessPointResult_SsidErrorDropped(uuid, apPath, devPath, flags, failAt) ==
    LET c0 == <<Call("nmNewAccessPoint", apPath)>>
        secType == doParseApSecType(flags[1], flags[2], flags[3])
    IN  IF failAt = "nmNewAccessPoint"
        THEN ActResult("/", "nmNewAccessPoint", c0, profiles)
        ELSE IF uuid # ""
        THEN LET fix == fixApSecTypeChange(uuid, secType, failAt)
                 c1 == c0 \o fix.calls
                 c2 == Append(c1, Call("activateConnection", <<uuid, devPath>>))
             IN  IF fix.err # ""
                 THEN ActResult("/", fix.err, c1, fix.profiles)
                 ELSE IF fix.needUserEdit
                 THEN ActResult("/", "need user edit", c1, fix.profiles)
                 ELSE IF failAt = "activateConnection"
                 THEN ActResult("/", "activateConnection", c2, fix.profiles)
                 ELSE ActResult("/active", "", c2, fix.profiles)
        ELSE LET gen == CHOOSE g \in GenUuids : profiles[g] = "absent"
                 c1 == Append(c0, Call("Ssid", apPath))
                 c2 == Append(c1, Call("nmAddAndActivateConnection",
                                       <<gen, apSecTypeString(secType), devPath>>))
             IN  IF failAt = "nmAddAndActivateConnection"
                 THEN ActResult("/", "nmAddAndActivateConnection", c2, profiles)
                 ELSE ActResult("/active", "", c2,
                                [profiles EXCEPT ![gen] = apSecTypeString(secType)])

\* (cpath, err) of Manager.activateAccessPoint, the external calls made and
\* the stored profiles afterwards
activateAccessPointResult(uuid, apPath, devPath, flags, failAt) ==
    LET c0 == <<Call("nmNewAccessPoint", apPath)>>
        secType == doParseApSecType(flags[1], flags[2], flags[3])
    IN  IF failAt = "nmNewAccessPoint"
        THEN ActResult("/", "nmNewAccessPoint", c0, profiles)
        ELSE IF uuid # ""
        THEN LET fix == fixApSecTypeChange(uuid, secType, failAt)
                 c1 == c0 \o fix.calls
                 c2 == Append(c1, Call("activateConnection", <<uuid, devPath>>))
             IN  IF fix.err # ""
                 THEN ActResult("/", fix.err, c1, fix.profiles)
                 ELSE IF fix.needUserEdit
                 THEN ActResult("/", "need user edit", c1, fix.profiles)
                 ELSE IF failAt = "activateConnection"
                 THEN ActResult("/", "activateConnection", c2, fix.profiles)
                 ELSE ActResult("/active", "", c2, fix.profiles)
        ELSE LET gen == CHOOSE g \in GenUuids : profiles[g] = "absent"
                 c1 == Append(c0, Call("Ssid", apPath))
                 c2 == Append(c1, Call("nmAddAndActivateConnection",
                                       <<gen, apSecTypeString(secType), devPath>>))
             IN  IF failAt = "Ssid"
                 THEN ActResult("/", "Ssid", c1, profiles)
                 ELSE IF failAt = "nmAddAndActivateConnection"
                 THEN ActResult("/", "nmAddAndActivateConnection", c2, profiles)
                 ELSE ActResult("/active", "", c2,
                                [profiles EXCEPT ![gen] = apSecTypeString(secType)])

\* Manager.ActivateAccessPoint
ActivateAccessPoint(uuid, apPath, devPath, flags, failAt) ==
    /\ uuid = "" => \E g \in GenUuids : profiles[g] = "absent"
    /\ LET r == activateAccessPointResult(uuid, apPath, devPath, flags, failAt)
       IN  /\ profiles' = r.profiles
           /\ nmCalls' = r.calls
           /\ actRet' = [uuid |-> uuid, apPath |-> apPath, devPath |-> devPath,
                         flags |-> flags, failAt |-> failAt,
                         cpath |-> IF r.err # "" THEN "/" ELSE r.cpath,
                         err |-> r.err]
    /\ UNCHANGED <<secVars, steerVars, accessPointsLock, world, accessPoints, detached, activeConns, emitted,
                   released, lastOp, listening, panicked>>

InitA ==
    /\ world = OrderWorld
    /\ accessPoints = [d \in OrderWorld.devPaths |-> <<>>]
    /\ detached = {}
    /\ activeConns = {}
    /\ emitted = <<>>
    /\ released = <<>>
    /\ lastOp = Op("", "", "", 0)
    /\ listening = [p \in OrderWorld.apPaths |-> FALSE]
    /\ panicked = FALSE
    /\ accessPointsLock = ""
    /\ secIn = <<0, 0, 0>>
    /\ secOut = -1
    /\ findIn = <<>>
    /\ findOut = -1
    /\ profiles \in { f \in [Uuids \cup GenUuids -> KeyMgmts \cup {"absent"}] :
                        \A g \in GenUuids : f[g] = "absent" }
    /\ nmCalls = <<>>
    /\ actRet = [uuid |-> "", apPath |-> "", devPath |-> "", flags |-> <<0, 0, 0>>,
                 failAt |-> "", cpath |-> "", err |-> ""]
    /\ debugChangeAPBand = ""
    /\ checkAPStrengthTimer = "nil"
    /\ passes = <<>>
    /\ nmDev = <<>>
    /\ dbgCall = <<>>
    /\ lastEval = <<>>

NextA ==
    \E uuid \in Uuids \cup {""}, apPath \in {"/ap/1"}, devPath \in {"/dev/1"},
       flags \in ActivateFlags, failAt \in ExternalCalls \cup {""} :
        ActivateAccessPoint(uuid, apPath, devPath, flags, failAt)

SpecActivate == InitA /\ [][NextA]_vars

(***************************************************************************)
(* Band steering: Manager.findAPByBand, Manager.getBandByFrequency,        *)
(* Manager.checkAPStrength and Manager.DebugChangeAPChannel.               *)
(***************************************************************************)
channelAutoChangeThreshold == 65
frequency5GUpperlimit == 5825
frequency5GLowerlimit == 4915
frequency2GUpperlimit == 2484
frequency2GLowerlimit == 2412
NM_ACTIVE_CONNECTION_STATE_ACTIVATED == 2

registryVars == <<accessPoints, detached, activeConns, emitted, released, lastOp, listening,
                  accessPointsLock>>

\* the comparison of line 443
strongerThan_OrEqual(strength, strengthMax) == strength >= strengthMax

strongerThan(strength, strengthMax) == strength > strengthMax

\* the conditions of lines 449-451 and 454-456
inRequestedBand(ap, ssid, band) ==
    \/ /\ ap.Ssid = ssid
       /\ band = "a"
       /\ ap.Frequency >= frequency5GLowerlimit
       /\ ap.Frequency <= frequency5GUpperlimit
    \/ /\ ap.Ssid = ssid
       /\ band = "bg"
       /\ ap.Frequency >= frequency2GLowerlimit
       /\ ap.Frequency <= frequency2GUpperlimit

\* the inner loop of lines 448-460: the index it breaks at, 0 when it runs
\* to the end of the list
innerLoop(ssid, aps, band) ==
    IF \E j \in 1..Len(aps) : inRequestedBand(aps[j], ssid, band)
    THEN CHOOSE j \in 1..Len(aps) :
             /\ inRequestedBand(aps[j], ssid, band)
             /\ \A k \in 1..(j - 1) : ~inRequestedBand(aps[k], ssid, band)
    ELSE 0

RECURSIVE findLoop(_, _, _, _, _, _)
\* the loop of lines 441-462 from entry i on; apNow is an index, 0 for nil
findLoop(ssid, aps, band, i, apNow, strengthMax) ==
    IF i > Len(aps) THEN apNow
    ELSE IF band = ""
    THEN IF aps[i].Ssid = ssid /\ strongerThan(aps[i].Strength, strengthMax)
         THEN findLoop(ssid, aps, band, i + 1, i, aps[i].Strength)
         ELSE findLoop(ssid, aps, band, i + 1, apNow, strengthMax)
    ELSE LET j == innerLoop(ssid, aps, band)
         IN  findLoop(ssid, aps, band, i + 1, IF j # 0 THEN j ELSE apNow, strengthMax)

\* the index in aps of the access point returned, 0 for nil
findAPByBand(ssid, aps, band) == findLoop(ssid, aps, band, 1, 0, 0)

getBandByFrequency(freq) ==
    IF freq >= frequency5GLowerlimit /\ freq <= frequency5GUpperlimit THEN "a"
    ELSE IF freq >= frequency2GLowerlimit /\ freq <= frequency2GUpperlimit THEN "bg"
    ELSE "unknown"

isObjPathValid(path) == path # "" /\ path # "/"

\* the external calls of one iteration of the loop of checkAPStrength that
\* can fail; a nil result of getConnection either makes updateConnectionBand
\* return an error or is dereferenced
SteerFailures ==
    { "", "nmNewActiveConnection", "State", "Connection", "getConnection/error",
      "getConnection/panic", "updateConnectionBand", "activateConnection" }

EvalResult(band, why, cand, calls, stored, panic) ==
    [band |-> band, why |-> why, cand |-> cand, calls |-> calls,
     profiles |-> stored, panic |-> panic]

\* uint8 comparison of line 533
belowSteerThreshold(candStrength, strength) == candStrength < (strength + 20) % 256

\* lines 492-511: the device has no active connection in state activated
notActivated_Never(dev, failAt) == FALSE

notActivated(dev, failAt) ==
    \/ ~isObjPathValid(dev.ActiveConnection)
    \/ failAt = "nmNewActiveConnection"
    \/ failAt = "State"
    \/ dev.State # NM_ACTIVE_CONNECTION_STATE_ACTIVATED

\* one iteration of the loop of lines 485-564 for device d, entered with
\* the local variable band: the value of band afterwards, why the iteration
\* ended, the candidate's Path, the calls made and the profiles afterwards
evalDevice(band, d, failAt) ==
    LET dev == nmDev[d]
        apPath == dev.ActiveAccessPoint
        frequency == dev.Frequency
        strength == dev.Strength
        i == findAPByBand(dev.Ssid, accessPoints[d], band)
        apNow == accessPoints[d][i]
        band1 == IF band # "" THEN band
                 ELSE IF /\ apNow.Frequency >= frequency5GLowerlimit
                         /\ apNow.Frequency <= frequency5GUpperlimit
                      THEN "a" ELSE "bg"
        cUpd == <<Call("updateConnectionBand", <<dev.Uuid, band1>>)>>
        act == activateAccessPointResult(dev.Uuid, apNow.Path, d,
                                         NmFlagsOf(apNow.Path), failAt)
        cAct == Append(cUpd, Call("activateAccessPoint", <<dev.Uuid, apNow.Path, d>>))
    IN  IF notActivated(dev, failAt)
        THEN EvalResult(band, "not activated", "", <<>>, profiles, FALSE)
        ELSE IF /\ band = ""
                /\ strength > channelAutoChangeThreshold
                /\ frequency >= frequency5GLowerlimit
                /\ frequency <= frequency5GUpperlimit
        THEN EvalResult(band, "strong 5GHz", "", <<>>, profiles, FALSE)
        ELSE IF i = 0
        THEN EvalResult(band, "not found AP", "", <<>>, profiles, FALSE)
        ELSE IF apNow.Path = apPath
        THEN EvalResult(band, "same AP", apNow.Path, <<>>, profiles, FALSE)
        ELSE IF band = "" /\ belowSteerThreshold(apNow.Strength, strength)
        THEN EvalResult(band, "below threshold", apNow.Path, <<>>, profiles, FALSE)
        ELSE IF band1 = getBandByFrequency(frequency)
        THEN EvalResult(band1, "same band", apNow.Path, <<>>, profiles, FALSE)
        ELSE IF failAt = "Connection"
        THEN EvalResult(band1, "Connection", apNow.Path, <<>>, profiles, FALSE)
        ELSE IF failAt = "getConnection/panic"
        THEN EvalResult(band1, "panic", apNow.Path, <<>>, profiles, TRUE)
        ELSE IF failAt \in {"getConnection/error", "updateConnectionBand"}
        THEN EvalResult(band1, "updateConnectionBand", apNow.Path, cUpd, profiles, FALSE)
        ELSE EvalResult(band1, IF act.err = "" THEN "steered" ELSE "activate failed",
                        apNow.Path, cAct \o act.calls, act.profiles, FALSE)

PassIdle == [pc |-> "idle", band |-> "", band0 |-> "", todo |-> <<>>]

\* scan results schedule the one-shot timer when none is scheduled
armCheckAPStrengthTimer ==
    /\ ~panicked
    /\ checkAPStrengthTimer = "nil"
    /\ checkAPStrengthTimer' = "armed"
    /\ UNCHANGED <<secVars, activateVars, registryVars, world, panicked,
                   debugChangeAPBand, passes, nmDev, dbgCall, lastEval>>

\* the timer fires and checkAPStrength runs line 480
checkAPStrength_read(p) ==
    /\ ~panicked
    /\ checkAPStrengthTimer = "armed"
    /\ passes[p].pc = "idle"
    /\ checkAPStrengthTimer' = "fired"
    /\ passes' = [passes EXCEPT ![p] = [pc |-> "reset", band |-> debugChangeAPBand,
                                        band0 |-> debugChangeAPBand, todo |-> <<>>]]
    /\ UNCHANGED <<secVars, activateVars, registryVars, world, panicked,
                   debugChangeAPBand, nmDev, dbgCall, lastEval>>

\* lines 481-485; order is the order of m.devices[deviceWifi]
checkAPStrength_reset(p, order) ==
    /\ ~panicked
    /\ passes[p].pc = "reset"
    /\ debugChangeAPBand' = ""
    /\ checkAPStrengthTimer' = "nil"
    /\ passes' = [passes EXCEPT ![p].pc = "loop", ![p].todo = order]
    /\ UNCHANGED <<secVars, activateVars, registryVars, world, panicked,
                   nmDev, dbgCall, lastEval>>

\* one iteration of the loop over the devices; the pass returns after the
\* last one
checkAPStrength_device(p, failAt) ==
    /\ ~panicked
    /\ passes[p].pc = "loop"
    /\ LET d == Head(passes[p].todo)
           r == evalDevice(passes[p].band, d, failAt)
           rest == Tail(passes[p].todo)
       IN  /\ passes' = [passes EXCEPT ![p] =
                            IF rest = <<>> \/ r.panic THEN PassIdle
                            ELSE [passes[p] EXCEPT !.band = r.band, !.todo = rest]]
           /\ nmCalls' = r.calls
           /\ profiles' = r.profiles
           /\ panicked' = r.panic
           /\ lastEval' = [pass |-> p, dev |-> d, band0 |-> passes[p].band0,
                           bandIn |-> passes[p].band, bandOut |-> r.band,
                           why |-> r.why, cand |-> r.cand, failAt |-> failAt]
    /\ UNCHANGED <<secVars, actRet, registryVars, world, debugChangeAPBand,
                   checkAPStrengthTimer, nmDev, dbgCall>>

\* line 425
bandTokenValid_Any(band) == TRUE

bandTokenValid(band) == ~(band # "a" /\ band # "bg")

\* DebugChangeAPChannel up to the return of RequestWirelessScan
DebugChangeAPChannel(band, scanOk) ==
    /\ ~panicked
    /\ dbgCall.pc # "store"
    /\ dbgCall' = IF ~bandTokenValid(band)
                  THEN [pc |-> "returned", band |-> band, err |-> "band input error",
                        scanned |-> FALSE]
                  ELSE IF ~scanOk
                  THEN [pc |-> "returned", band |-> band, err |-> "RequestWirelessScan",
                        scanned |-> TRUE]
                  ELSE [pc |-> "store", band |-> band, err |-> "", scanned |-> TRUE]
    /\ UNCHANGED <<secVars, activateVars, registryVars, world, panicked,
                   debugChangeAPBand, checkAPStrengthTimer, passes, nmDev, lastEval>>

\* lines 433-434
DebugChangeAPChannel_store ==
    /\ ~panicked
    /\ dbgCall.pc = "store"
    /\ debugChangeAPBand' = dbgCall.band
    /\ dbgCall' = [dbgCall EXCEPT !.pc = "returned"]
    /\ UNCHANGED <<secVars, activateVars, registryVars, world, panicked,
                   checkAPStrengthTimer, passes, nmDev, lastEval>>

(***************************************************************************)
(* The steering specifications.  The registry and what NetworkManager      *)
(* reports of the devices are drawn by the initial state and stay as they  *)
(* are while passes run.                                                    *)
(***************************************************************************)
\* an entry of m.accessPoints as updateProps leaves it
StoredAp(devPath, apPath, ssid, strength, frequency) ==
    LET secType == doParseApSecType(NmFlagsOf(apPath)[1], NmFlagsOf(apPath)[2],
                                    NmFlagsOf(apPath)[3])
    IN  [Path |-> apPath, devPath |-> devPath,
         shouldBeIgnored |-> (strength < 10 /\ strength # 0),
         Ssid |-> ssid, Secured |-> (secType # apSecNone),
         SecuredInEap |-> (secType = apSecEap),
         Strength |-> strength, Frequency |-> frequency]

\* what the handle of a device reports: active access point and its
\* properties, active connection and its state, the uuid of its profile
NmDevice(apPath, ssid, strength, frequency, aPath, state, uuid) ==
    [ActiveAccessPoint |-> apPath, Ssid |-> ssid, Strength |-> strength,
     Frequency |-> frequency, ActiveConnection |-> aPath, State |-> state,
     Uuid |-> uuid]

\* 2.4 GHz channel 6, 5 GHz channel 36, 6 GHz channel 1
SteerFrequencies == {2437, 5180, 5955}
\* no active connection, activating, activated
SteerConnections == { <<"/", 0>>, <<"/ac/1", 1>>, <<"/ac/1", 2>> }

\* device /dev/1: connected to /ap/1, one more access point /ap/2 in its list
SteerScenarios1 ==
    { [dev |-> NmDevice("/ap/1", "home", s1, f1, c[1], c[2], "u1"),
       aps |-> << StoredAp("/dev/1", "/ap/1", "home", s1, f1),
                  StoredAp("/dev/1", "/ap/2", ssid2, s2, f2) >>] :
        s1 \in {40, 240}, f1 \in SteerFrequencies, c \in SteerConnections,
        ssid2 \in {"home", "cafe"}, s2 \in {55, 65, 250}, f2 \in SteerFrequencies }

\* device /dev/2: activated on /ap/3 at 2.4 GHz, strength 40, with the 5 GHz
\* access point /ap/4 of the same network in its list
SteerScenarios2 ==
    { [dev |-> NmDevice("/ap/3", "home", 40, 2437, "/ac/2", 2, "u2"),
       aps |-> << StoredAp("/dev/2", "/ap/3", "home", 40, 2437),
                  StoredAp("/dev/2", "/ap/4", "home", s2, 5180) >>] :
        s2 \in {55, 65} }

SteerWorld ==
    [devPaths |-> {"/dev/1", "/dev/2"}, apPaths |-> {"/ap/1", "/ap/2", "/ap/3", "/ap/4"},
     strengths |-> {40, 55, 65, 240, 250}, conns |-> {},
     fetchFails |-> {{}}]

InitSt ==
    /\ world = SteerWorld
    /\ \E x1 \in SteerScenarios1, x2 \in SteerScenarios2 :
          /\ accessPoints = [d \in SteerWorld.devPaths |->
                                IF d = "/dev/1" THEN x1.aps ELSE x2.aps]
          /\ nmDev = [d \in SteerWorld.devPaths |->
                         IF d = "/dev/1" THEN x1.dev ELSE x2.dev]
    /\ detached = {}
    /\ activeConns = {}
    /\ emitted = <<>>
    /\ released = <<>>
    /\ lastOp = Op("", "", "", 0)
    /\ listening = [p \in SteerWorld.apPaths |-> TRUE]
    /\ panicked = FALSE
    /\ accessPointsLock = ""
    /\ secIn = <<0, 0, 0>>
    /\ secOut = -1
    /\ findIn = <<>>
    /\ findOut = -1
    /\ profiles = [u \in Uuids \cup GenUuids |->
                      CASE u = "u1" -> "wpa-psk" [] u = "u2" -> "wpa-eap"
                        [] OTHER -> "absent"]
    /\ nmCalls = <<>>
    /\ actRet = <<>>
    /\ debugChangeAPBand \in {"", "a", "bg"}
    /\ checkAPStrengthTimer = "nil"
    /\ passes = [p \in {1} |-> PassIdle]
    /\ dbgCall = [pc |-> "idle", band |-> "", err |-> "", scanned |-> FALSE]
    /\ lastEval = [pass |-> 0, dev |-> "", band0 |-> "", bandIn |-> "", bandOut |-> "",
                   why |-> "", cand |-> "", failAt |-> ""]

NextSt ==
    \/ armCheckAPStrengthTimer
    \/ \E p \in DOMAIN passes : checkAPStrength_read(p)
    \/ \E p \in DOMAIN passes, order \in DeviceOrders : checkAPStrength_reset(p, order)
    \/ \E p \in DOMAIN passes, failAt \in SteerFailures : checkAPStrength_device(p, failAt)

SpecSteer == InitSt /\ [][NextSt]_vars

(***************************************************************************)
(* Passes and override requests side by side: one device, activated on a   *)
(* 2.4 GHz access point with a 5 GHz one in its list that is either        *)
(* stronger or was stored as ignored (strength 5, entered before the       *)
(* device had an active connection and not refreshed since), up to         *)
(* MaxPasses invocations of checkAPStrength at a time and one invocation   *)
(* of DebugChangeAPChannel.  Neither function takes a lock, so their       *)
(* statements interleave.                                                  *)
(***************************************************************************)
RaceWorld ==
    [devPaths |-> {"/dev/1"}, apPaths |-> {"/ap/1", "/ap/2"},
     strengths |-> {5, 40, 65}, conns |-> {},
     fetchFails |-> {{}}]

\* the band tokens a caller passes to DebugChangeAPChannel
BandTokens == {"a", "bg", "", "g"}

InitR ==
    /\ world = RaceWorld
    /\ \E s2 \in RaceWorld.strengths \ {40} :
          accessPoints = [d \in RaceWorld.devPaths |->
                             << StoredAp("/dev/1", "/ap/1", "home", 40, 2437),
                                StoredAp("/dev/1", "/ap/2", "home", s2, 5180) >>]
    /\ nmDev = [d \in RaceWorld.devPaths |->
                   NmDevice("/ap/1", "home", 40, 2437, "/ac/1", 2, "u1")]
    /\ detached = {}
    /\ activeConns = {}
    /\ emitted = <<>>
    /\ released = <<>>
    /\ lastOp = Op("", "", "", 0)
    /\ listening = [p \in RaceWorld.apPaths |-> TRUE]
    /\ panicked = FALSE
    /\ accessPointsLock = ""
    /\ secIn = <<0, 0, 0>>
    /\ secOut = -1
    /\ findIn = <<>>
    /\ findOut = -1
    /\ profiles = [u \in Uuids \cup GenUuids |->
                      CASE u = "u1" -> "wpa-psk" [] u = "u2" -> "wpa-eap"
                        [] OTHER -> "absent"]
    /\ nmCalls = <<>>
    /\ actRet = <<>>
    /\ debugChangeAPBand = ""
    /\ checkAPStrengthTimer = "nil"
    /\ passes = [p \in 1..MaxPasses |-> PassIdle]
    /\ dbgCall = [pc |-> "idle", band |-> "", err |-> "", scanned |-> FALSE]
    /\ lastEval = [pass |-> 0, dev |-> "", band0 |-> "", bandIn |-> "", bandOut |-> "",
                   why |-> "", cand |-> "", failAt |-> ""]

NextR ==
    \/ armCheckAPStrengthTimer
    \/ \E p \in DOMAIN passes : checkAPStrength_read(p)
    \/ \E p \in DOMAIN passes, order \in DeviceOrders : checkAPStrength_reset(p, order)
    \/ \E p \in DOMAIN passes, failAt \in {"", "updateConnectionBand"} :
          checkAPStrength_device(p, failAt)
    \/ \E band \in BandTokens, scanOk \in BOOLEAN : DebugChangeAPChannel(band, scanOk)
    \/ DebugChangeAPChannel_store

SpecRace == InitR /\ [][NextR]_vars

(***************************************************************************)
(* findAPByBand on its own: the initial state draws the SSID looked for,   *)
(* the list and the band, the one step applies the function.               *)
(***************************************************************************)
\* the entries a list is made of; an entry's Path is given by its place
FindEntries ==
    [ssid : {"home", "cafe"}, strength : {0, 40, 65}, frequency : SteerFrequencies]

FindPaths == <<"/ap/1", "/ap/2", "/ap/3", "/ap/4", "/ap/5">>

FindLists ==
    { [k \in 1..Len(l) |->
          StoredAp("/dev/1", FindPaths[k], l[k].ssid, l[k].strength, l[k].frequency)] :
        l \in SeqsUpTo(FindEntries, MaxFindLen) }

InitF ==
    /\ world = OrderWorld
    /\ accessPoints = [d \in OrderWorld.devPaths |-> <<>>]
    /\ detached = {}
    /\ activeConns = {}
    /\ emitted = <<>>
    /\ released = <<>>
    /\ lastOp = Op("", "", "", 0)
    /\ listening = [p \in OrderWorld.apPaths |-> FALSE]
    /\ panicked = FALSE
    /\ accessPointsLock = ""
    /\ secIn = <<0, 0, 0>>
    /\ secOut = -1
    /\ findIn \in [ssid : {"home"}, aps : FindLists, band : {"", "a", "bg"}]
    /\ findOut = -1
    /\ profiles = <<>>
    /\ nmCalls = <<>>
    /\ actRet = <<>>
    /\ debugChangeAPBand = ""
    /\ checkAPStrengthTimer = "nil"
    /\ passes = <<>>
    /\ nmDev = <<>>
    /\ dbgCall = <<>>
    /\ lastEval = <<>>

callFindAPByBand ==
    /\ findOut = -1
    /\ findOut' = findAPByBand(findIn.ssid, findIn.aps, findIn.band)
    /\ UNCHANGED <<secIn, secOut, findIn, activateVars, steerVars, registryVars,
                   world, panicked>>

NextF == callFindAPByBand

SpecFind == InitF /\ [][NextF]_vars

(***************************************************************************)
(* The registry lock.  An operation of the registry is one step from its   *)
(* Lock to its deferred Unlock where nothing else is looked at.  Here the  *)
(* Lock is a step of its own: the operation then runs, and releases the    *)
(* lock, in a later step, and the steps of a pass can fall in between.     *)
(* checkAPStrength and findAPByBand never take the lock.                   *)
(***************************************************************************)
\* m.accessPointsLock.Lock() of lines 252 and 266
accessPointsLock_Lock(op) ==
    /\ ~panicked
    /\ accessPointsLock = ""
    /\ accessPointsLock' = op
    /\ UNCHANGED <<secVars, activateVars, steerVars, world, panicked, accessPoints,
                   detached, activeConns, emitted, released, lastOp, listening>>

NextL ==
    \/ \E op \in {"addAccessPoint", "removeAccessPoint"} : accessPointsLock_Lock(op)
    \/ \E devPath \in world.devPaths, apPath \in world.apPaths, in \in NewApInputs :
          /\ accessPointsLock = "addAccessPoint"
          /\ addAccessPoint(devPath, apPath, in)
    \/ \E devPath \in world.devPaths, apPath \in world.apPaths :
          /\ accessPointsLock = "removeAccessPoint"
          /\ removeAccessPoint(devPath, apPath)
    \/ armCheckAPStrengthTimer
    \/ \E p \in DOMAIN passes : checkAPStrength_read(p)
    \/ \E p \in DOMAIN passes, order \in DeviceOrders : checkAPStrength_reset(p, order)
    \/ \E p \in DOMAIN passes : checkAPStrength_device(p, "")

SpecLock == InitR /\ [][NextL]_vars

(***************************************************************************)
(* Vocabulary of the properties.                                           *)
(***************************************************************************)
\* the places <<devPath, index>> of the map that hold an entry with this Path
PlacesOf(apPath) ==
    { pl \in world.devPaths \X (1..(Cardinality(world.apPaths) + MaxInitLen)) :
        /\ pl[2] <= Len(accessPoints[pl[1]])
        /\ accessPoints[pl[1]][pl[2]].Path = apPath }

InRegistry(apPath) == PlacesOf(apPath) # {}

AllPlaces ==
    { pl \in world.devPaths \X (1..(Cardinality(world.apPaths) + MaxInitLen)) :
        pl[2] <= Len(accessPoints[pl[1]]) }

VisiblePlaces == { pl \in AllPlaces : ~accessPoints[pl[1]][pl[2]].shouldBeIgnored }

IgnoredPlaces == { pl \in AllPlaces : accessPoints[pl[1]][pl[2]].shouldBeIgnored }

RegistryEmpty == \A d \in world.devPaths : accessPoints[d] = <<>>

RECURSIVE InLifecycleOrder(_, _)
\* evs continues the per-Path shape (Added, PropertiesChanged*, Removed)*
\* for a listener in state l
InLifecycleOrder(l, evs) ==
    IF evs = <<>> THEN TRUE
    ELSE LET e == Head(evs)
         IN  /\ CASE e.sig = "AccessPointAdded" -> ~l[e.Path]
                  [] OTHER -> l[e.Path]
             /\ InLifecycleOrder(Hear(l, <<e>>), Tail(evs))

(***************************************************************************)
(* C1: in every reachable state each AP Path occurs at most once in the    *)
(* whole registry, never twice in one device's list and never under two    *)
(* devices.                                                                *)
(***************************************************************************)
C1_PathAtMostOnce ==
    \A p \in world.apPaths : Cardinality(PlacesOf(p)) <= 1

(***************************************************************************)
(* C2: the signals carrying one Path always come as AccessPointAdded, then *)
(* any number of AccessPointPropertiesChanged, then AccessPointRemoved,    *)
(* repeated: every operation's signals continue that shape.                *)
(***************************************************************************)
C2_LifecycleOrder ==
    [][InLifecycleOrder(listening, emitted')]_vars

(***************************************************************************)
(* C3: addAccessPoint with an apPath that is already in the registry,      *)
(* under any device, leaves the registry unchanged and emits nothing; any  *)
(* addAccessPoint grows the registry by at most one entry and emits at     *)
(* most one signal, an AccessPointAdded for the apPath.                    *)
(***************************************************************************)
C3_AddIdempotent ==
    [][lastOp'.op = "addAccessPoint" =>
        /\ InRegistry(lastOp'.apPath) =>
              (accessPoints' = accessPoints /\ emitted' = <<>>)
        /\ \A d \in world.devPaths :
              \/ accessPoints'[d] = accessPoints[d]
              \/ /\ d = lastOp'.devPath
                 /\ Len(accessPoints'[d]) = Len(accessPoints[d]) + 1
                 /\ SubSeq(accessPoints'[d], 1, Len(accessPoints[d])) = accessPoints[d]
                 /\ accessPoints'[d][Len(accessPoints'[d])].Path = lastOp'.apPath
                 /\ accessPoints'[d][Len(accessPoints'[d])].shouldBeIgnored
                      = (emitted' = <<>>)
        /\ emitted' \in {<<>>, <<[sig |-> "AccessPointAdded",
                                  devPath |-> lastOp'.devPath,
                                  Path |-> lastOp'.apPath]>>}
    ]_vars

\* a second add of a visible AP, asked for under the other device, was ignored
C3_Witness ==
    /\ lastOp = Op("addAccessPoint", "/dev/2", "/ap/1", 0)
    /\ emitted = <<>>
    /\ Len(accessPoints["/dev/1"]) = 1
    /\ accessPoints["/dev/1"][1].Path = "/ap/1"
    /\ ~accessPoints["/dev/1"][1].shouldBeIgnored
    /\ accessPoints["/dev/2"] = <<>>

(***************************************************************************)
(* C4: clearAccessPoints on a registry with N visible and M ignored APs    *)
(* emits exactly N AccessPointRemoved, none of them for an ignored AP, and *)
(* leaves the registry empty.                                              *)
(***************************************************************************)
C4_ClearEmitsVisibleOnly ==
    [][lastOp'.op = "clearAccessPoints" =>
        /\ Len(emitted') = Cardinality(VisiblePlaces)
        /\ \A k \in 1..Len(emitted') :
              /\ emitted'[k].sig = "AccessPointRemoved"
              /\ \E pl \in VisiblePlaces :
                    accessPoints[pl[1]][pl[2]].Path = emitted'[k].Path
        /\ RegistryEmpty'
    ]_vars

(***************************************************************************)
(* C5: the property-changed callback of an AP in the registry emits        *)
(* exactly the signal chosen by (ignored before, ignored after): none for  *)
(* (true, true), AccessPointPropertiesChanged for (false, false),          *)
(* AccessPointAdded for (true, false), AccessPointRemoved for (false,      *)
(* true); the callback of an AP whose Path is not in the registry emits    *)
(* nothing and changes nothing.                                            *)
(***************************************************************************)
ChosenSignal(before, after) ==
    CASE before /\ after -> "none"
      [] ~before /\ ~after -> "AccessPointPropertiesChanged"
      [] before /\ ~after -> "AccessPointAdded"
      [] OTHER -> "AccessPointRemoved"

ActiveSsidsOn(devPath) ==
    { c.ssid : c \in { x \in activeConns :
                         /\ x.typ = "802-11-wireless"
                         /\ devPath \in x.Devices } }

IgnoredAsSpecified(ap) ==
    ap.shouldBeIgnored <=>
        (ap.Strength \in 1..9 /\ ap.Ssid \notin ActiveSsidsOn(ap.devPath))

C6_IgnoreRule ==
    [][/\ lastOp'.op = "addAccessPoint" =>
            \A d \in world.devPaths :
                Len(accessPoints'[d]) > Len(accessPoints[d]) =>
                    IgnoredAsSpecified(accessPoints'[d][Len(accessPoints'[d])])
       /\ (lastOp'.op = "propertiesChanged" /\ lastOp'.index > 0) =>
            IgnoredAsSpecified(accessPoints'[lastOp'.devPath][lastOp'.index])
    ]_vars

\* a refresh left a weak AP visible because its SSID is the activated one
C6_Witness ==
    /\ lastOp.op = "propertiesChanged"
    /\ lastOp.index > 0
    /\ LET ap == accessPoints[lastOp.devPath][lastOp.index]
       IN  /\ ap.Strength = 9
           /\ ~ap.shouldBeIgnored
           /\ ap.Ssid \in ActiveSsidsOn(ap.devPath)

(***************************************************************************)
(* C7: GetAccessPoints(devicePath) returns exactly the entries of that     *)
(* device's list whose shouldBeIgnored is false, in the order of the list, *)
(* none of another device; the order of the entries of a list is the order *)
(* of their insertion and is kept when other entries are removed.          *)
(***************************************************************************)
VisibleIdx(aps) == { i \in 1..Len(aps) : ~aps[i].shouldBeIgnored }

\* the k-th smallest element of a set of numbers
Kth(S, k) == CHOOSE i \in S : Cardinality({ j \in S : j < i }) = k - 1

ListsVisibleInOrder(d) ==
    LET aps == accessPoints[d]
        got == GetAccessPoints(d)
    IN  /\ Len(got) = Cardinality(VisibleIdx(aps))
        /\ \A k \in 1..Len(got) :
              /\ got[k] = aps[Kth(VisibleIdx(aps), k)]
              /\ got[k].devPath = d

PathsOf(aps) == { aps[i].Path : i \in 1..Len(aps) }

\* position of the entry with this Path
PosOf(aps, p) == CHOOSE i \in 1..Len(aps) : aps[i].Path = p

\* from aps to aps2 the entries that stay keep their order and new entries
\* come after them
KeepsInsertionOrder(aps, aps2) ==
    /\ \A p, q \in PathsOf(aps) \cap PathsOf(aps2) :
          PosOf(aps, p) < PosOf(aps, q) => PosOf(aps2, p) < PosOf(aps2, q)
    /\ \A p \in PathsOf(aps) \cap PathsOf(aps2), q \in PathsOf(aps2) \ PathsOf(aps) :
          PosOf(aps2, p) < PosOf(aps2, q)

C8_RemoveAbsentNoOp ==
    [][(lastOp'.op = "removeAccessPoint" /\ ~InRegistry(lastOp'.apPath)) =>
        /\ emitted' = <<>>
        /\ released' = <<>>
        /\ accessPoints' = accessPoints
        /\ detached' = detached
        /\ panicked' = panicked
    ]_vars

\* a removal of an absent Path from a registry that holds another one
C8_Witness ==
    /\ lastOp = Op("removeAccessPoint", "/dev/1", "/ap/2", 0)
    /\ ~InRegistry("/ap/2")
    /\ InRegistry("/ap/1")
    /\ emitted = <<>>
    /\ released = <<>>
    /\ ~panicked

(***************************************************************************)
(* C9: for every (flags, wpaFlags, rsnFlags) doParseApSecType returns Eap  *)
(* if the 802.1X key-management bit is set in wpaFlags or rsnFlags,        *)
(* otherwise Psk if wpaFlags or rsnFlags is not "no security", otherwise   *)
(* Wep if the privacy bit of flags is set, otherwise None.                 *)
(***************************************************************************)
RECURSIVE BitsOf(_, _)
\* the positions of the bits set in x, counted from position k
BitsOf(x, k) ==
    IF x = 0 THEN {}
    ELSE (IF x % 2 = 1 THEN {k} ELSE {}) \cup BitsOf(x \div 2, k + 1)

PrecedenceTable(flags, wpaFlags, rsnFlags) ==
    IF 9 \in BitsOf(wpaFlags, 0) \/ 9 \in BitsOf(rsnFlags, 0) THEN "Eap"
    ELSE IF wpaFlags # 0 \/ rsnFlags # 0 THEN "Psk"
    ELSE IF 0 \in BitsOf(flags, 0) THEN "Wep"
    ELSE "None"

C9_ClassifierTable ==
    secOut # -1 =>
        secOut = CASE PrecedenceTable(secIn[1], secIn[2], secIn[3]) = "Eap" -> 3
                   [] PrecedenceTable(secIn[1], secIn[2], secIn[3]) = "Psk" -> 2
                   [] PrecedenceTable(secIn[1], secIn[2], secIn[3]) = "Wep" -> 1
                   [] OTHER -> 0

\* 802.1X in rsnFlags beside a PSK wpaFlags was classified Eap
C9_Witness ==
    /\ secIn = <<1, 256, 648>>
    /\ secOut = 3

(***************************************************************************)
(* C10: ActivateAccessPoint with a non-empty uuid whose stored profile has *)
(* a key-management category other than Eap, for an AP classified Eap,     *)
(* returns "need user edit" when the AP and the profile could be read; in  *)
(* every case it leaves the stored profile as it was and calls neither     *)
(* Update nor activateConnection.                                          *)
(***************************************************************************)
CallsNamed(calls, name) == { k \in 1..Len(calls) : calls[k].call = name }

C10_EapNeedsUserEdit ==
    [][(/\ actRet'.uuid # ""
        /\ profiles[actRet'.uuid] \in {"none", "wep", "wpa-psk"}
        /\ PrecedenceTable(actRet'.flags[1], actRet'.flags[2], actRet'.flags[3]) = "Eap")
       =>
        /\ actRet'.failAt \notin {"nmNewAccessPoint", "nmGetConnectionByUuid",
                                  "nmNewSettingsConnection", "GetSettings"}
              => (actRet'.err = "need user edit" /\ actRet'.cpath = "/")
        /\ actRet'.err # ""
        /\ profiles' = profiles
        /\ CallsNamed(nmCalls', "Update") = {}
        /\ CallsNamed(nmCalls', "activateConnection") = {}
        /\ CallsNamed(nmCalls', "nmAddAndActivateConnection") = {}
    ]_vars

\* a PSK profile was refused for an AP that now advertises 802.1X
C10_Witness ==
    /\ actRet.uuid = "u1"
    /\ actRet.err = "need user edit"
    /\ actRet.flags = <<1, 512, 648>>
    /\ profiles["u1"] = "wpa-psk"
    /\ nmCalls # <<>>

(***************************************************************************)
(* Vocabulary of the steering properties.  A step of a pass that evaluates *)
(* a device is told by the pass leaving its place in the loop; the device  *)
(* is the head of what the pass had left to do.                            *)
(***************************************************************************)
EvalStep(p) == passes[p].pc = "loop" /\ passes'[p] # passes[p]

EvalDev(p) == Head(passes[p].todo)

\* the band a frequency lies in
BandOf(freq) ==
    IF freq \in 4915..5825 THEN "a" ELSE IF freq \in 2412..2484 THEN "bg" ELSE "unknown"

\* the device reports an active connection in state activated, and the
\* evaluation could read it
ReadsActivated(d, failAt) ==
    /\ nmDev[d].ActiveConnection \notin {"", "/"}
    /\ nmDev[d].State = 2
    /\ failAt \notin {"nmNewActiveConnection", "State"}

UpdatesOf(calls) == { calls[k].arg : k \in { j \in 1..Len(calls) : calls[j].call = "updateConnectionBand" } }

ActivationsOf(calls) == { calls[k].arg : k \in { j \in 1..Len(calls) : calls[j].call = "activateAccessPoint" } }

\* the entries of the list of d with this Path
EntriesAt(d, apPath) == { k \in 1..Len(accessPoints[d]) : accessPoints[d][k].Path = apPath }

(***************************************************************************)
(* C11: in a pass started with no band requested, for a device activated   *)
(* on a 2.4 GHz AP at strength 40 with a 5 GHz AP of the same SSID in its  *)
(* list: if that AP has strength 65 and no call fails, the pass sets the   *)
(* profile band to "a" and invokes activation with the profile's uuid,     *)
(* that AP's Path and the device; if it has strength 55 the pass makes no  *)
(* profile update and no activation for the device.                        *)
(***************************************************************************)
C11_SteerExample ==
    [][\A p \in DOMAIN passes :
        (/\ EvalStep(p)
         /\ passes[p].band0 = ""
         /\ ReadsActivated(EvalDev(p), lastEval'.failAt)
         /\ BandOf(nmDev[EvalDev(p)].Frequency) = "bg"
         /\ nmDev[EvalDev(p)].Strength = 40)
        =>
        \A k \in 1..Len(accessPoints[EvalDev(p)]) :
            LET ap == accessPoints[EvalDev(p)][k]
                uuid == nmDev[EvalDev(p)].Uuid
            IN  (ap.Ssid = nmDev[EvalDev(p)].Ssid /\ BandOf(ap.Frequency) = "a")
                =>
                /\ (ap.Strength = 65 /\ lastEval'.failAt = "")
                      => /\ <<uuid, "a">> \in UpdatesOf(nmCalls')
                         /\ <<uuid, ap.Path, EvalDev(p)>> \in ActivationsOf(nmCalls')
                /\ ap.Strength = 55
                      => /\ UpdatesOf(nmCalls') = {}
                         /\ ActivationsOf(nmCalls') = {}
    ]_vars

(***************************************************************************)
(* C12: at most one checkAPStrength pass is in progress at any time.       *)
(***************************************************************************)
C12_OnePassAtATime ==
    Cardinality({ p \in DOMAIN passes : passes[p].pc # "idle" }) <= 1

(***************************************************************************)
(* C13: DebugChangeAPChannel returns an error for every band token other   *)
(* than "a" and "bg" without having requested a scan, and returns the      *)
(* error of a failed scan request for a valid token; in both cases         *)
(* debugChangeAPBand is left as it was.  debugChangeAPBand is only ever    *)
(* set to the valid token of a request whose scan request succeeded.       *)
(***************************************************************************)
C13_OverrideValidation ==
    [][/\ (dbgCall.pc # "store" /\ dbgCall' # dbgCall)
          => /\ dbgCall'.band \notin {"a", "bg"}
                  => /\ dbgCall'.pc = "returned"
                     /\ dbgCall'.err = "band input error"
                     /\ ~dbgCall'.scanned
                     /\ debugChangeAPBand' = debugChangeAPBand
             /\ dbgCall'.err # ""
                  => /\ dbgCall'.pc = "returned"
                     /\ debugChangeAPBand' = debugChangeAPBand
             /\ (dbgCall'.band \in {"a", "bg"} /\ dbgCall'.err # "")
                  => (dbgCall'.scanned /\ dbgCall'.err = "RequestWirelessScan")
       /\ (debugChangeAPBand' # debugChangeAPBand /\ debugChangeAPBand' # "")
          => /\ dbgCall.pc = "store"
             /\ dbgCall.err = ""
             /\ dbgCall.scanned
             /\ dbgCall.band \in {"a", "bg"}
             /\ debugChangeAPBand' = dbgCall.band
    ]_vars

\* token "g" was refused while band "a" of an earlier request was pending
C13_Witness ==
    /\ dbgCall.pc = "returned"
    /\ dbgCall.band = "g"
    /\ dbgCall.err = "band input error"
    /\ ~dbgCall.scanned
    /\ debugChangeAPBand = "a"

(***************************************************************************)
(* C14: a band stored by an accepted override request is taken by the next *)
(* pass: the pass that clears debugChangeAPBand evaluates its devices with *)
(* the band that was stored, and debugChangeAPBand is empty once a pass    *)
(* has entered its loop, however the request and the passes interleave.    *)
(***************************************************************************)
C14_RequestConsumed ==
    [][\A p \in DOMAIN passes :
        (passes[p].pc = "reset" /\ passes'[p].pc = "loop")
        =>
        /\ debugChangeAPBand' = ""
        /\ passes'[p].band0 = debugChangeAPBand
        /\ passes'[p].band = debugChangeAPBand
    ]_vars

(***************************************************************************)
(* C15: a pass makes no profile update and no activation, and leaves the   *)
(* stored profiles alone, for a device whose active connection is missing, *)
(* cannot be read or is not in state activated when the pass evaluates it, *)
(* whether or not a band was requested.                                    *)
(***************************************************************************)
C15_NotActivatedSkipped ==
    [][\A p \in DOMAIN passes :
        (EvalStep(p) /\ ~ReadsActivated(EvalDev(p), lastEval'.failAt))
        =>
        /\ nmCalls' = <<>>
        /\ profiles' = profiles
        /\ lastEval'.dev = EvalDev(p)
    ]_vars

\* in a pass with band "a" requested, a device that is still activating and
\* has a 5 GHz access point of its network in its list was left alone
C15_Witness ==
    /\ lastEval.dev = "/dev/1"
    /\ lastEval.band0 = "a"
    /\ lastEval.why = "not activated"
    /\ nmDev["/dev/1"].State = 1
    /\ nmDev["/dev/1"].Frequency = 2437
    /\ \E k \in 1..Len(accessPoints["/dev/1"]) :
          /\ accessPoints["/dev/1"][k].Ssid = "home"
          /\ accessPoints["/dev/1"][k].Frequency = 5180

(***************************************************************************)
(* C16: when a device is evaluated with no band set (automatic mode), the  *)
(* pass invokes activation only for a candidate whose strength minus the   *)
(* current strength is at least 20 as integers, for strengths in 0..255.   *)
(***************************************************************************)
C16_ThresholdAsIntegers ==
    [][\A p \in DOMAIN passes :
        (/\ EvalStep(p)
         /\ passes[p].band0 = ""
         /\ passes[p].band = ""
         /\ ActivationsOf(nmCalls') # {})
        =>
        \A k \in EntriesAt(EvalDev(p), lastEval'.cand) :
            accessPoints[EvalDev(p)][k].Strength - nmDev[EvalDev(p)].Strength >= 20
    ]_vars

(***************************************************************************)
(* C17: what a pass does for a device (why it stops, the candidate, the    *)
(* calls it makes) is what the evaluation of that device gives with the    *)
(* band read at the start of the pass: it does not depend on the devices   *)
(* evaluated before it in the same pass.                                   *)
(***************************************************************************)
C17_DecisionPerDevice ==
    [][\A p \in DOMAIN passes :
        EvalStep(p)
        =>
        LET own == evalDevice(passes[p].band0, EvalDev(p), lastEval'.failAt)
        IN  /\ lastEval'.why = own.why
            /\ lastEval'.cand = own.cand
            /\ nmCalls' = own.calls
    ]_vars

(***************************************************************************)
(* C18: findAPByBand never returns an AP of another SSID.  For band "a"    *)
(* (resp. "bg") it returns the first AP in list order with the SSID and a  *)
(* frequency in [4915, 5825] (resp. [2412, 2484]), nil when there is none. *)
(* For an empty band it returns the first AP in list order among the       *)
(* same-SSID APs of highest strength.  As stated, it returns nil for an    *)
(* empty band only when the list has no same-SSID AP; as the code has it,  *)
(* only same-SSID APs of strength above 0 are candidates, and nil is       *)
(* returned when there is none of those.                                   *)
(***************************************************************************)
SameSsid(in) == { k \in 1..Len(in.aps) : in.aps[k].Ssid = in.ssid }

Strongest(in, S) == { k \in S : \A j \in S : in.aps[j].Strength <= in.aps[k].Strength }

FirstOf(S) == IF S = {} THEN 0 ELSE CHOOSE k \in S : \A j \in S : k <= j

InBandOf(in) ==
    { k \in SameSsid(in) : BandOf(in.aps[k].Frequency) = in.band }

\* the statement with every same-SSID AP a candidate
C18_FindByBandAsStated ==
    findOut # -1 =>
        /\ findOut # 0 => findIn.aps[findOut].Ssid = findIn.ssid
        /\ findIn.band = "" => findOut = FirstOf(Strongest(findIn, SameSsid(findIn)))
        /\ findIn.band # "" => findOut = FirstOf(InBandOf(findIn))

\* the statement with the same-SSID APs of strength above 0 as candidates
C18_FindByBand ==
    findOut # -1 =>
        /\ findOut # 0 => findIn.aps[findOut].Ssid = findIn.ssid
        /\ findIn.band = ""
              => findOut = FirstOf(Strongest(findIn,
                               { k \in SameSsid(findIn) : findIn.aps[k].Strength > 0 }))
        /\ findIn.band # "" => findOut = FirstOf(InBandOf(findIn))

\* of two same-SSID APs of the highest strength after a weaker one, the
\* first was returned
C18_Witness ==
    /\ findOut = 2
    /\ findIn.band = ""
    /\ Len(findIn.aps) = 3
    /\ SameSsid(findIn) = {1, 2, 3}
    /\ findIn.aps[1].Strength = 40
    /\ findIn.aps[2].Strength = 65
    /\ findIn.aps[3].Strength = 65

(***************************************************************************)
(* C19: whenever a pass invokes activation for a device, the candidate's   *)
(* Path differs from the active AP's Path and the band of the candidate's  *)
(* frequency (a, bg or unknown) differs from the band of the active AP's   *)
(* frequency.                                                              *)
(***************************************************************************)
C19_OnlyOnBandChange ==
    [][\A p \in DOMAIN passes :
        (EvalStep(p) /\ ActivationsOf(nmCalls') # {})
        =>
        /\ lastEval'.cand # nmDev[EvalDev(p)].ActiveAccessPoint
        /\ \A k \in EntriesAt(EvalDev(p), lastEval'.cand) :
              BandOf(accessPoints[EvalDev(p)][k].Frequency)
                  # BandOf(nmDev[EvalDev(p)].Frequency)
    ]_vars

(***************************************************************************)
(* C20: when a pass steers a device, the first call is the update of the   *)
(* profile of the active connection to the band of the candidate's         *)
(* frequency and the next is the activation with that profile's uuid, the  *)
(* candidate and the device; when the profile lookup or the band update    *)
(* fails, no activation is invoked for the device.                         *)
(***************************************************************************)
C20_UpdateThenActivate ==
    [][\A p \in DOMAIN passes :
        EvalStep(p)
        =>
        /\ ActivationsOf(nmCalls') # {}
              => /\ Len(nmCalls') >= 2
                 /\ nmCalls'[1].call = "updateConnectionBand"
                 /\ nmCalls'[1].arg[1] = nmDev[EvalDev(p)].Uuid
                 /\ \A k \in EntriesAt(EvalDev(p), lastEval'.cand) :
                       nmCalls'[1].arg[2] = BandOf(accessPoints[EvalDev(p)][k].Frequency)
                 /\ nmCalls'[2].call = "activateAccessPoint"
                 /\ nmCalls'[2].arg = <<nmDev[EvalDev(p)].Uuid, lastEval'.cand, EvalDev(p)>>
                 /\ ActivationsOf(nmCalls') = {nmCalls'[2].arg}
        /\ lastEval'.failAt \in {"Connection", "getConnection/error",
                                 "getConnection/panic", "updateConnectionBand"}
              => ActivationsOf(nmCalls') = {}
    ]_vars

(***************************************************************************)
(* C21: the candidate a pass invokes activation for is an entry of the     *)
(* device's list with shouldBeIgnored false, one that GetAccessPoints      *)
(* lists for the device.                                                   *)
(***************************************************************************)
C21_CandidateVisible ==
    [][\A p \in DOMAIN passes :
        (EvalStep(p) /\ ActivationsOf(nmCalls') # {})
        =>
        /\ EntriesAt(EvalDev(p), lastEval'.cand) # {}
        /\ \A k \in EntriesAt(EvalDev(p), lastEval'.cand) :
              /\ ~accessPoints[EvalDev(p)][k].shouldBeIgnored
              /\ \E j \in 1..Len(GetAccessPoints(EvalDev(p))) :
                    GetAccessPoints(EvalDev(p))[j].Path = lastEval'.cand
    ]_vars

(***************************************************************************)
(* C22: the list of a device is read or written only under the registry    *)
(* lock; in particular a pass looks for its candidate in the list only     *)
(* while no operation that mutates the registry holds the lock.            *)
(***************************************************************************)
C22_RegistryUnderLock ==
    [][\A p \in DOMAIN passes :
        (EvalStep(p) /\ lastEval'.why \notin {"not activated", "strong 5GHz"})
        => accessPointsLock = ""
    ]_vars

(***************************************************************************)
(* C23: removeAccessPoint(devPath, apPath) for an apPath in the registry   *)
(* takes out exactly one entry, one whose Path is apPath, wherever it is   *)
(* stored and whatever devPath is; every other entry of every device stays *)
(* in its order, and the one signal emitted is the AccessPointRemoved of   *)
(* apPath.                                                                 *)
(***************************************************************************)
C23_RemoveExactlyThatEntry ==
    [][(lastOp'.op = "removeAccessPoint" /\ InRegistry(lastOp'.apPath)) =>
        /\ ~panicked'
        /\ Len(emitted') = 1
        /\ emitted'[1].sig = "AccessPointRemoved"
        /\ emitted'[1].Path = lastOp'.apPath
        /\ \E pl \in PlacesOf(lastOp'.apPath) :
              /\ \A d \in world.devPaths \ {pl[1]} : accessPoints'[d] = accessPoints[d]
              /\ Len(accessPoints'[pl[1]]) = Len(accessPoints[pl[1]]) - 1
              /\ \A k \in 1..Len(accessPoints'[pl[1]]) :
                    accessPoints'[pl[1]][k] =
                       accessPoints[pl[1]][IF k < pl[2] THEN k ELSE k + 1]
    ]_vars

(***************************************************************************)
(* C24: addAccessPoint emits AccessPointAdded for an apPath only when that *)
(* same call puts the entry into the registry: a call that inserts nothing *)
(* emits nothing.                                                          *)
(***************************************************************************)
C24_AddedOnlyIfInserted ==
    [][lastOp'.op = "addAccessPoint" =>
        (\A k \in 1..Len(emitted') :
            emitted'[k].sig = "AccessPointAdded" =>
               /\ emitted'[k].Path = lastOp'.apPath
               /\ ~InRegistry(lastOp'.apPath)
               /\ \E i \in 1..Len(accessPoints'[lastOp'.devPath]) :
                     accessPoints'[lastOp'.devPath][i].Path = lastOp'.apPath)
        /\ (accessPoints' = accessPoints => emitted' = <<>>)
    ]_vars

(***************************************************************************)
(* C25: a property-changed refresh of an entry of the registry either      *)
(* leaves the cached fields of the entry as they were (a fetch failed and  *)
(* the refresh was given up) or stores what NetworkManager holds: an SSID  *)
(* that is not empty, a reported strength, the frequency and the security  *)
(* category of the access point.  No entry ever has an empty SSID.         *)
(***************************************************************************)
C25_FailedFetchKeepsFields ==
    [][lastOp'.op = "propertiesChanged" =>
        /\ lastOp'.index \in 1..Len(accessPoints[lastOp'.devPath])
        /\ LET before == accessPoints[lastOp'.devPath][lastOp'.index]
               after == accessPoints'[lastOp'.devPath][lastOp'.index]
               secType == doParseApSecType(NmFlagsOf(before.Path)[1],
                                           NmFlagsOf(before.Path)[2],
                                           NmFlagsOf(before.Path)[3])
           IN  \/ after = before
               \/ /\ after.Ssid # ""
                  /\ after.Strength \in world.strengths
                  /\ after.Frequency = NmFrequencyOf(before.Path)
                  /\ after.Secured = (secType # apSecNone)
                  /\ after.SecuredInEap = (secType = apSecEap)
    ]_vars

(***************************************************************************)
(* Vocabulary of C26 and C27: the category a key management value stands   *)
(* for, the value written for a category, and the steps of an activation   *)
(* that can fail.                                                          *)
(***************************************************************************)
CategoryOf(keyMgmt) ==
    CASE keyMgmt = "none" -> "None"
      [] keyMgmt = "wep" -> "Wep"
      [] keyMgmt = "wpa-psk" -> "Psk"
      [] keyMgmt = "wpa-eap" -> "Eap"
      [] OTHER -> "?"

KeyMgmtOf(category) ==
    CASE category = "None" -> "none"
      [] category = "Wep" -> "wep"
      [] category = "Psk" -> "wpa-psk"
      [] OTHER -> "?"

LookupSteps ==
    {"nmNewAccessPoint", "nmGetConnectionByUuid", "nmNewSettingsConnection", "GetSettings"}

ActivationRequests(calls) ==
    CallsNamed(calls, "activateConnection") \cup CallsNamed(calls, "nmAddAndActivateConnection")

(***************************************************************************)
(* C26: activation with a uuid whose profile could be read and holds a     *)
(* known key management value.  If the profile's category is the one the   *)
(* access point advertises, nothing is written and activateConnection is   *)
(* called.  If the access point's category is another one of None, Wep,    *)
(* Psk, any activateConnection comes after an Update of that profile with  *)
(* the matching key management value, which is then what is stored; and    *)
(* when writing the setting or the Update fails, activateConnection is not *)
(* called and the stored profile is as before.                             *)
(***************************************************************************)
C26_FixBeforeActivate ==
    [][(/\ actRet'.uuid # ""
        /\ profiles[actRet'.uuid] \in {"none", "wep", "wpa-psk", "wpa-eap"}
        /\ actRet'.failAt \notin LookupSteps)
       =>
        LET uuid == actRet'.uuid
            cat == PrecedenceTable(actRet'.flags[1], actRet'.flags[2], actRet'.flags[3])
            old == CategoryOf(profiles[uuid])
            acts == CallsNamed(nmCalls', "activateConnection")
            upds == CallsNamed(nmCalls', "Update")
            persistFails == actRet'.failAt \in {"Update",
                                                "logicSetSettingVkWirelessSecurityKeyMgmt"}
        IN  /\ cat = old =>
                 /\ upds = {}
                 /\ profiles' = profiles
                 /\ Cardinality(acts) = 1
                 /\ \A k \in acts : nmCalls'[k].arg = <<uuid, actRet'.devPath>>
            /\ (cat # old /\ cat \in {"None", "Wep", "Psk"}) =>
                 /\ \A k \in acts :
                       /\ \E j \in upds :
                             /\ j < k
                             /\ nmCalls'[j].arg = <<uuid, KeyMgmtOf(cat)>>
                       /\ profiles'[uuid] = KeyMgmtOf(cat)
                 /\ persistFails =>
                       (acts = {} /\ actRet'.err # "" /\ profiles' = profiles)
                 /\ ~persistFails => (acts # {} /\ upds # {})
    ]_vars

\* a WEP profile was rewritten for an access point that now advertises WPA
\* PSK, and then activated
C26_Witness ==
    /\ actRet.uuid = "u1"
    /\ actRet.flags = <<1, 0, 256>>
    /\ actRet.err = ""
    /\ profiles["u1"] = "wpa-psk"
    /\ \E j \in CallsNamed(nmCalls, "Update"), k \in CallsNamed(nmCalls, "activateConnection") :
          j < k /\ nmCalls[j].arg = <<"u1", "wpa-psk">>

(***************************************************************************)
(* C27: in one activation, a call that fails is the last call made and its *)
(* failure is the error returned, with "/" as the path; at most one        *)
(* activation request is issued; with an empty uuid the only request is    *)
(* nmAddAndActivateConnection, no profile is updated and the profiles that *)
(* exist stay as they are; with a uuid nmAddAndActivateConnection is never *)
(* called.                                                                 *)
(***************************************************************************)
C27_FailureReturnedNoRetry ==
    [][actRet' # actRet =>
        /\ \A k \in 1..Len(nmCalls') :
              nmCalls'[k].call = actRet'.failAt =>
                 /\ k = Len(nmCalls')
                 /\ actRet'.err = actRet'.failAt
                 /\ actRet'.cpath = "/"
        /\ actRet'.err \in (ExternalCalls \ {"logicSetSettingVkWirelessSecurityKeyMgmt"}) =>
              /\ nmCalls'[Len(nmCalls')].call = actRet'.err
              /\ actRet'.cpath = "/"
              /\ actRet'.err \notin {"activateConnection", "nmAddAndActivateConnection"}
                    => ActivationRequests(nmCalls') = {}
        /\ Cardinality(ActivationRequests(nmCalls')) <= 1
        /\ actRet'.uuid = "" =>
              /\ CallsNamed(nmCalls', "Update") = {}
              /\ CallsNamed(nmCalls', "activateConnection") = {}
              /\ \A u \in Uuids : profiles'[u] = profiles[u]
        /\ actRet'.uuid # "" => CallsNamed(nmCalls', "nmAddAndActivateConnection") = {}
    ]_vars

\* the Update of a profile failed: the error came back and nothing was
\* activated
C27_Witness ==
    /\ actRet.uuid = "u1"
    /\ actRet.failAt = "Update"
    /\ actRet.err = "Update"
    /\ actRet.cpath = "/"
    /\ nmCalls # <<>>
    /\ nmCalls[Len(nmCalls)].call = "Update"
    /\ ActivationRequests(nmCalls) = {}

====
